---- MODULE Spec2Model ----
(***************************************************************************)
(* A model of car (tetratelabs/car): the registry client's platform        *)
(* selection and GetImage, the pattern matcher, and the List/Extract       *)
(* driver.                                                                 *)
(*                                                                         *)
(* Strings whose characters matter (names, patterns, platforms, paths) are *)
(* sequences of one-character strings, so that slicing, joining, glob      *)
(* matching, path cleaning and lexicographic comparison are computed as    *)
(* the code computes them.  Fixed message texts are single tokens.         *)
(***************************************************************************)
EXTENDS Integers, Sequences, FiniteSets, TLC

VARIABLES
    pc,         \* position of the operation under study
    args,       \* inputs of a function call (requireValidPlatform, newDestinationPath, GetImage)
    ret,        \* what that call returned
    image,      \* car driver: the layers of the image the registry serves
    cfg,        \* car driver: the car struct (filePatterns, fastRead, createdByPattern, ...)
    filtered,   \* car.do: filteredLayers
    pm,         \* car.do: the patternMatcher's patterns map
    li,         \* car.do: index of the layer being read
    ei,         \* ReadFilesystemLayer: index of the next entry handed to the callback
    out,        \* names written to c.out, in order
    emitted,    \* per emitted entry: the pattern MatchesPattern marked for it
    fs,         \* Extract: destination path -> file content
    reads,      \* image layer indexes handed to ReadFilesystemLayer, in order
    result      \* what List/Extract returned

vars == <<pc, args, ret, image, cfg, filtered, pm, li, ei, out, emitted, fs, reads, result>>
callVars == <<args, ret>>
carVars == <<image, cfg, filtered, pm, li, ei, out, emitted, fs, reads, result>>

(***************************************************************************)
(* Strings                                                                 *)
(***************************************************************************)

\* The byte value of a character: Go compares strings bytewise.
Ord(c) ==
    CASE c = " " -> 32
      [] c = "*" -> 42
      [] c = "," -> 44
      [] c = "." -> 46
      [] c = "/" -> 47
      [] c = "1" -> 49
      [] c = "2" -> 50
      [] c = "?" -> 63
      [] c = "a" -> 97
      [] c = "b" -> 98
      [] c = "c" -> 99
      [] c = "d" -> 100
      [] OTHER -> 255

RECURSIVE StrLess(_, _)
\* Go's s < t on strings.
StrLess(s, t) ==
    IF t = <<>> THEN FALSE
    ELSE IF s = <<>> THEN TRUE
    ELSE IF Head(s) = Head(t) THEN StrLess(Tail(s), Tail(t))
    ELSE Ord(Head(s)) < Ord(Head(t))

\* Go's s >= t on strings.
StrGeq(s, t) == ~StrLess(s, t)

RECURSIVE StringsJoin(_, _)
\* strings.Join(elems, sep)
StringsJoin(elems, sep) ==
    IF elems = <<>> THEN <<>>
    ELSE IF Len(elems) = 1 THEN elems[1]
    ELSE elems[1] \o sep \o StringsJoin(Tail(elems), sep)

RECURSIVE Split(_, _)
\* strings.Split(s, sep) for a one-character sep.
Split(s, sep) ==
    IF \A i \in 1..Len(s) : s[i] # sep THEN <<s>>
    ELSE LET k == CHOOSE i \in 1..Len(s) : s[i] = sep /\ \A j \in 1..(i-1) : s[j] # sep
         IN  <<SubSeq(s, 1, k-1)>> \o Split(SubSeq(s, k+1, Len(s)), sep)

\* strings.Contains(s, sub); also regexp.MatchString for a pattern of literal characters.
Contains(s, sub) ==
    \E i \in 1..(Len(s) - Len(sub) + 1) : SubSeq(s, i, i + Len(sub) - 1) = sub

RECURSIVE CleanStack(_, _, _)
\* The element stack path.Clean builds: "" and "." are dropped, ".." pops the
\* previous element, is dropped at the root, and is kept otherwise.
CleanStack(segs, rooted, stack) ==
    IF segs = <<>> THEN stack
    ELSE LET s == Head(segs)
             next == IF s = <<>> \/ s = <<".">> THEN stack
                     ELSE IF s = <<".", ".">>
                          THEN IF stack # <<>> /\ stack[Len(stack)] # <<".", ".">>
                               THEN SubSeq(stack, 1, Len(stack) - 1)
                               ELSE IF rooted THEN stack ELSE Append(stack, s)
                          ELSE Append(stack, s)
         IN  CleanStack(Tail(segs), rooted, next)

\* path.Clean(p) (filepath.Clean where the separator is '/').
Clean(p) ==
    LET rooted == p # <<>> /\ p[1] = "/"
        body == StringsJoin(CleanStack(Split(p, "/"), rooted, <<>>), <<"/">>)
        r == IF rooted THEN <<"/">> \o body ELSE body
    IN  IF r = <<>> THEN <<".">> ELSE r

\* path.Join / filepath.Join: empty elements are ignored, the rest joined by
\* '/' and cleaned; all elements empty gives "".
PathJoin(elems) ==
    LET nonEmpty == SelectSeq(elems, LAMBDA e : e # <<>>)
    IN  IF nonEmpty = <<>> THEN <<>> ELSE Clean(StringsJoin(nonEmpty, <<"/">>))

RECURSIVE SortedSeq(_)
\* The keys of a set in ascending byte order (sort.Slice with keys[i] < keys[j]).
SortedSeq(S) ==
    IF S = {} THEN <<>>
    ELSE LET m == CHOOSE x \in S : \A y \in S : ~StrLess(y, x)
         IN  <<m>> \o SortedSeq(S \ {m})

(***************************************************************************)
(* registry.requireValidPlatform                                           *)
(***************************************************************************)

NoError == <<>>

\* sortedKeyString with the sort left out: the keys in some other order.
sortedKeyString_Unsorted(platforms) ==
    LET sorted == SortedSeq(platforms)
    IN  StringsJoin([i \in 1..Len(sorted) |-> sorted[Len(sorted) + 1 - i]], <<",", " ">>)

\* sortedKeyString(m): the keys of m sorted and joined by ", ".
sortedKeyString(platforms) == StringsJoin(SortedSeq(platforms), <<",", " ">>)

\* requireValidPlatform(platform, platforms), platforms being the key set
\* of the map.  Returns [p, err]; err = NoError is a nil error.
requireValidPlatform(platform, platforms) ==
    IF Cardinality(platforms) = 0
    THEN [p |-> <<>>, err |-> <<"image config contains no platform information">>]
    ELSE IF platform = <<>>
    THEN IF Cardinality(platforms) = 1
         THEN [p |-> CHOOSE k \in platforms : TRUE, err |-> NoError]
         ELSE [p |-> <<>>, err |-> <<"choose a platform: ">> \o sortedKeyString(platforms)]
    ELSE IF platform \in platforms
    THEN [p |-> platform, err |-> NoError]
    ELSE [p |-> <<>>,
          err |-> platform \o <<" is not a supported platform: ">> \o sortedKeyString(platforms)]

\* Bounds of the requireValidPlatform inputs.
MaxPlatforms == 3

\* Platform strings: "a", "a/b", "a/a", "b/a", "b"
PlatformPool ==
    {<<"a">>, <<"a", "/", "b">>, <<"a", "/", "a">>, <<"b", "/", "a">>, <<"b">>}

Idle == [fn |-> "none"]

CarIdle ==
    /\ image = <<>>
    /\ cfg = Idle
    /\ filtered = <<>>
    /\ pm = <<>>
    /\ li = 0
    /\ ei = 0
    /\ out = <<>>
    /\ emitted = <<>>
    /\ fs = <<>>
    /\ reads = <<>>
    /\ result = <<>>

InitRVP ==
    /\ pc = "call"
    /\ \E platform \in PlatformPool \cup {<<>>} :
       \E platforms \in {S \in SUBSET PlatformPool : Cardinality(S) <= MaxPlatforms} :
          args = [fn |-> "requireValidPlatform", platform |-> platform, platforms |-> platforms]
    /\ ret = Idle
    /\ CarIdle

CallRequireValidPlatform ==
    /\ pc = "call"
    /\ args.fn = "requireValidPlatform"
    /\ ret' = requireValidPlatform(args.platform, args.platforms)
    /\ pc' = "done"
    /\ UNCHANGED <<args, carVars>>

NextRVP == CallRequireValidPlatform

SpecRVP == InitRVP /\ [][NextRVP]_vars

IsSortedKeys(seq, S) ==
    /\ Len(seq) = Cardinality(S)
    /\ {seq[i] : i \in 1..Len(seq)} = S
    /\ \A i \in 1..(Len(seq) - 1) : StrLess(seq[i], seq[i + 1])

\* The keys of S in lexicographic order, joined by ", ", stated without sortedKeyString.
SortedJoined(S) ==
    LET perm == CHOOSE seq \in [1..Cardinality(S) -> S] : IsSortedKeys(seq, S)
    IN  StringsJoin(perm, <<",", " ">>)

\* C1: requireValidPlatform returns, for every platform and key set: the
\* no-platform-information error on an empty set; the single key on an empty
\* request and a one-key set; "choose a platform: <sorted keys>" on an empty
\* request and two or more keys; the request when it is a key; otherwise
\* "<requested> is not a supported platform: <sorted keys>".
C1_RequireValidPlatform ==
    (pc = "done" /\ args.fn = "requireValidPlatform") =>
        LET platform == args.platform
            platforms == args.platforms
        IN  /\ platforms = {} =>
                ret = [p |-> <<>>, err |-> <<"image config contains no platform information">>]
            /\ (platform = <<>> /\ Cardinality(platforms) = 1) =>
                (ret.err = NoError /\ platforms = {ret.p})
            /\ (platform = <<>> /\ Cardinality(platforms) >= 2) =>
                ret = [p |-> <<>>, err |-> <<"choose a platform: ">> \o SortedJoined(platforms)]
            /\ (platform # <<>> /\ platform \in platforms) =>
                ret = [p |-> platform, err |-> NoError]
            /\ (platform # <<>> /\ platforms # {} /\ platform \notin platforms) =>
                ret = [p |-> <<>>,
                       err |-> platform \o <<" is not a supported platform: ">>
                                   \o SortedJoined(platforms)]

\* Witness of C1: a call with an empty request over three keys returned the
\* choose-a-platform error listing the keys in sorted order.
C1_Witness ==
    /\ pc = "done"
    /\ args.fn = "requireValidPlatform"
    /\ args.platform = <<>>
    /\ args.platforms = {<<"b">>, <<"a", "/", "b">>, <<"a">>}
    /\ ret.err = <<"choose a platform: ", "a", ",", " ", "a", "/", "b", ",", " ", "b">>


(***************************************************************************)
(* patternmatcher                                                          *)
(***************************************************************************)

RECURSIVE Match(_, _)
\* filepath.Match(pattern, name) for patterns of literals, '?' and '*':
\* '*' matches any run of non-separator characters, '?' one of them.
Match(pattern, name) ==
    IF pattern = <<>> THEN name = <<>>
    ELSE IF Head(pattern) = "*"
    THEN \E k \in 0..Len(name) :
            /\ \A i \in 1..k : name[i] # "/"
            /\ Match(Tail(pattern), SubSeq(name, k + 1, Len(name)))
    ELSE /\ name # <<>>
         /\ IF Head(pattern) = "?" THEN Head(name) # "/" ELSE Head(pattern) = Head(name)
         /\ Match(Tail(pattern), Tail(name))

\* patternmatcher.New(patterns, fastRead): the patterns map, every value false.
\* fastRead stays in the car struct.
NewPatternMatcher(patterns) ==
    [p \in {patterns[i] : i \in 1..Len(patterns)} |-> FALSE]

\* MatchesPattern that marks every pattern matching name.
MatchesPattern_MarksAll(m, name) ==
    IF DOMAIN m = {} THEN {[ok |-> TRUE, pm |-> m, by |-> <<>>]}
    ELSE IF \E p \in DOMAIN m : Match(p, name)
    THEN {[ok |-> TRUE, pm |-> [q \in DOMAIN m |-> m[q] \/ Match(q, name)], by |-> p] :
             p \in {q \in DOMAIN m : Match(q, name)}}
    ELSE {[ok |-> FALSE, pm |-> m, by |-> <<>>]}

\* MatchesPattern(name): the outcomes the range over the map can produce.  Go
\* ranges over a map in an unspecified order, so the pattern marked is any one
\* of those matching name.  `by` is the pattern marked.
MatchesPattern(m, name) ==
    IF DOMAIN m = {} THEN {[ok |-> TRUE, pm |-> m, by |-> <<>>]}
    ELSE IF \E p \in DOMAIN m : Match(p, name)
    THEN {[ok |-> TRUE, pm |-> [m EXCEPT ![p] = TRUE], by |-> p] :
             p \in {q \in DOMAIN m : Match(q, name)}}
    ELSE {[ok |-> FALSE, pm |-> m, by |-> <<>>]}

\* Unmatched that returns every pattern, matched or not.
Unmatched_All(m) == DOMAIN m

\* Unmatched(): the patterns whose value is false (as a set: the slice's order
\* is the order of a range over the map).
Unmatched(m) == {p \in DOMAIN m : ~m[p]}

\* StillMatching that never reports the patterns done.
StillMatching_NeverDone(m, fastRead) == TRUE

\* StillMatching()
StillMatching(m, fastRead) ==
    ~fastRead \/ Cardinality(DOMAIN m) = 0 \/ Cardinality(Unmatched(m)) > 0

(***************************************************************************)
(* car: List and Extract                                                   *)
(***************************************************************************)

\* stripLeadingSlash that keeps the leading slash.
stripLeadingSlash_Kept(name) == name

\* stripLeadingSlash(name)
stripLeadingSlash(name) ==
    IF Len(name) > 0 /\ name[1] = "/" THEN Tail(name) ELSE name

\* os.IsPathSeparator(c) where the separator is '/'.
IsPathSeparator(c) == c = "/"

RECURSIVE StripLoop(_, _, _)
\* The loop of newDestinationPath: i advances (from 0) while stripComponents > 0
\* and i < len(name), stripComponents decreasing at each separator.  Returns
\* the final [i, stripComponents].
StripLoop(name, i, stripComponents) ==
    IF stripComponents > 0 /\ i < Len(name)
    THEN StripLoop(name, i + 1,
                   IF IsPathSeparator(name[i + 1]) THEN stripComponents - 1
                   ELSE stripComponents)
    ELSE [i |-> i, stripComponents |-> stripComponents]

\* newDestinationPath without the check of the components left to strip.
newDestinationPath_NoSkip(name, directory, stripComponents) ==
    LET e == StripLoop(name, 0, stripComponents)
    IN  [path |-> PathJoin(<<directory, SubSeq(name, e.i + 1, Len(name))>>), ok |-> TRUE]

\* newDestinationPath(name, directory, stripComponents): [path, ok]
newDestinationPath(name, directory, stripComponents) ==
    LET e == StripLoop(name, 0, stripComponents)
    IN  IF e.stripComponents > 0 THEN [path |-> <<>>, ok |-> FALSE]
        ELSE [path |-> PathJoin(<<directory, SubSeq(name, e.i + 1, Len(name))>>), ok |-> TRUE]

\* filepath.Dir(path) of a cleaned path.
Dir(path) ==
    IF \A i \in 1..Len(path) : path[i] # "/" THEN <<".">>
    ELSE LET k == CHOOSE i \in 1..Len(path) :
                     path[i] = "/" /\ \A j \in (i + 1)..Len(path) : path[j] # "/"
         IN  Clean(SubSeq(path, 1, k))

\* The callback's error returned as it is.
readFileError_Unwrapped(name, err) == err

\* ReadFilesystemLayer's error when the callback fails on a tar entry:
\* fmt.Errorf("error calling readFile on %s: %w", th.Name, err)
readFileError(name, err) == <<"error calling readFile on ">> \o name \o <<": ">> \o err

\* The bytes the registry serves for entry e of image layer l: size bytes that
\* tell the entries apart.
Content(l, e, size) == [i \in 1..size |-> <<l, e>>]

\* os.OpenFile(path, O_CREATE|O_RDWR, mode) followed by io.CopyN(fw, reader,
\* size): the file is opened without O_TRUNC and written from offset 0, so the
\* bytes of an existing file beyond size stay.
WriteFile(files, path, data) ==
    LET old == IF path \in DOMAIN files THEN files[path] ELSE <<>>
        new == data \o SubSeq(old, Len(data) + 1, Len(old))
    IN  [p \in DOMAIN files \cup {path} |-> IF p = path THEN new ELSE files[p]]

\* A path and the directories above it (the root excepted).
Ancestors(path) ==
    {SubSeq(path, 1, k) : k \in {j \in 1..Len(path) : j = Len(path) \/ path[j + 1] = "/"}}

\* os.MkdirAll(baseDir) fails when baseDir or a directory above it is a file;
\* os.OpenFile(path) fails when path is a directory.  Directories exist exactly
\* above the files written.
WriteFails(files, path) ==
    \/ \E f \in DOMAIN files : f \in Ancestors(Dir(path))
    \/ \E f \in DOMAIN files : f # path /\ path \in Ancestors(Dir(f))

\* c.createdByPattern == nil || c.createdByPattern.MatchString(layer.CreatedBy())
CreatedByMatches(createdByPattern, createdBy) ==
    createdByPattern.nil \/ Contains(createdBy, createdByPattern.re)

RECURSIVE FilterLayers(_, _, _)
\* getFilesystemLayers: the indexes of the image's layers that pass the
\* created-by pattern, in order.
FilterLayers(img, createdByPattern, i) ==
    IF i > Len(img) THEN <<>>
    ELSE (IF CreatedByMatches(createdByPattern, img[i].createdBy) THEN <<i>> ELSE <<>>)
             \o FilterLayers(img, createdByPattern, i + 1)

getFilesystemLayers(img, createdByPattern) == FilterLayers(img, createdByPattern, 1)


\* Bounds of the car driver's inputs.
MaxLayers == 2
MaxEntries == 2
MaxPatterns == 2
MaxSize == 2
MaxStrip == 1

SeqsUpTo(S, n) == UNION {[1..k -> S] : k \in 0..n}

\* Entry names "/a", "a/b", "b" and patterns "*", "a", "a/*" of the List runs.
ListNames == {<<"/", "a">>, <<"a", "/", "b">>, <<"b">>}
ListPatterns == {<<"*">>, <<"a">>, <<"a", "/", "*">>}
\* created_by values "ab" and "a"; the created-by pattern is absent or "b".
CreatedBys == {<<"a", "b">>, <<"a">>}
CreatedByPatterns == {[nil |-> TRUE, re |-> <<>>], [nil |-> FALSE, re |-> <<"b">>]}

\* Entry names "a/b", "b/b", "b" and the pattern lists of the Extract runs:
\* none, "*/b", and "b", "b/b", "a".
ExtractNames == {<<"a", "/", "b">>, <<"b", "/", "b">>, <<"b">>}
ExtractPatternLists ==
    {<<>>, << <<"*", "/", "b">> >>, << <<"b">>, <<"b", "/", "b">>, <<"a">> >>}
\* The destination directory "/d".
Directory == <<"/", "d">>

Layers(names, sizes, createdBys) ==
    [createdBy : createdBys,
     entries : SeqsUpTo([name : names, size : sizes], MaxEntries)]

CallIdle == args = Idle /\ ret = Idle

CarStart ==
    /\ pc = "start"
    /\ filtered = <<>>
    /\ pm = <<>>
    /\ li = 0
    /\ ei = 0
    /\ out = <<>>
    /\ emitted = <<>>
    /\ fs = <<>>
    /\ reads = <<>>
    /\ result = <<>>

\* car.New for a List: any image, pattern list, fast-read and created-by pattern.
InitList ==
    /\ image \in SeqsUpTo(Layers(ListNames, {1}, CreatedBys), MaxLayers)
    /\ \E patterns \in SeqsUpTo(ListPatterns, MaxPatterns), fastRead \in BOOLEAN,
          createdByPattern \in CreatedByPatterns :
          cfg = [fn |-> "List", filePatterns |-> patterns, fastRead |-> fastRead,
                 createdByPattern |-> createdByPattern,
                 directory |-> <<>>, stripComponents |-> 0]

\* car.New for an Extract into Directory: entries of any size, any strip-components.
InitExtract ==
    /\ image \in SeqsUpTo(Layers(ExtractNames, 1..MaxSize, {<<"a">>}), MaxLayers)
    /\ \E patterns \in ExtractPatternLists, fastRead \in BOOLEAN,
          stripComponents \in 0..MaxStrip :
          cfg = [fn |-> "Extract", filePatterns |-> patterns, fastRead |-> fastRead,
                 createdByPattern |-> [nil |-> TRUE, re |-> <<>>],
                 directory |-> Directory, stripComponents |-> stripComponents]

Init ==
    /\ CallIdle
    /\ CarStart
    /\ (InitList \/ InitExtract)

\* car.do, up to the loop: GetImage succeeds, the layers are filtered by the
\* created-by pattern and a fresh pattern matcher is made.
DoStart ==
    /\ pc = "start"
    /\ filtered' = getFilesystemLayers(image, cfg.createdByPattern)
    /\ pm' = NewPatternMatcher(cfg.filePatterns)
    /\ li' = 1
    /\ pc' = "layer"
    /\ UNCHANGED <<callVars, image, cfg, ei, out, emitted, fs, reads, result>>

\* car.do: GetImage returns an error, which do returns.
DoGetImageFails ==
    /\ pc = "start"
    /\ result' = <<"GetImage error">>
    /\ pc' = "done"
    /\ UNCHANGED <<callVars, image, cfg, filtered, pm, li, ei, out, emitted, fs, reads>>

\* The loop of car.do calls ReadFilesystemLayer on the next filtered layer,
\* and the layer's blob is obtained.
ReadFilesystemLayer ==
    /\ pc = "layer"
    /\ li <= Len(filtered)
    /\ reads' = Append(reads, filtered[li])
    /\ ei' = 1
    /\ pc' = "entry"
    /\ UNCHANGED <<callVars, image, cfg, filtered, pm, li, out, emitted, fs, result>>

\* ReadFilesystemLayer fails before any entry is read (the GET fails); do
\* returns the error.
ReadFilesystemLayerFails ==
    /\ pc = "layer"
    /\ li <= Len(filtered)
    /\ reads' = Append(reads, filtered[li])
    /\ result' = <<"ReadFilesystemLayer error">>
    /\ pc' = "done"
    /\ UNCHANGED <<callVars, image, cfg, filtered, pm, li, ei, out, emitted, fs>>

\* ReadFilesystemLayer hands the next entry to the callback rf of car.do:
\* the name loses a leading slash, MatchesPattern decides, and on a match the
\* List or Extract function runs.  An error of the Extract function ends
\* ReadFilesystemLayer and do.
ReadFile ==
    /\ pc = "entry"
    /\ ei <= Len(image[filtered[li]].entries)
    /\ LET l == filtered[li]
           e == image[l].entries[ei]
           name == stripLeadingSlash(e.name)
       IN  \E o \in MatchesPattern(pm, name) :
              LET dest == newDestinationPath(name, cfg.directory, cfg.stripComponents)
                  writes == o.ok /\ cfg.fn = "Extract" /\ dest.ok
                  fails == writes /\ WriteFails(fs, dest.path)
              IN  /\ pm' = o.pm
                  /\ emitted' = IF o.ok
                                THEN Append(emitted, [name |-> name, layer |-> l,
                                                      entry |-> ei, by |-> o.by])
                                ELSE emitted
                  /\ out' = IF o.ok /\ cfg.fn = "List" THEN Append(out, name) ELSE out
                  /\ fs' = IF writes /\ ~fails
                           THEN WriteFile(fs, dest.path, Content(l, ei, e.size))
                           ELSE fs
                  /\ result' = IF fails
                               THEN readFileError(e.name, <<"mkdir or open error">>)
                               ELSE result
                  /\ pc' = IF fails THEN "done" ELSE "entry"
                  /\ ei' = ei + 1
    /\ UNCHANGED <<callVars, image, cfg, filtered, li, reads>>

\* ReadFilesystemLayer reaches the end of the archive and returns nil; do
\* leaves the loop when StillMatching() is false, and goes on otherwise.
LayerDone ==
    /\ pc = "entry"
    /\ ei > Len(image[filtered[li]].entries)
    /\ IF ~StillMatching(pm, cfg.fastRead)
       THEN pc' = "finish" /\ li' = li
       ELSE pc' = "layer" /\ li' = li + 1
    /\ UNCHANGED <<callVars, image, cfg, filtered, pm, ei, out, emitted, fs, reads, result>>

\* The permutations of a set, as sequences.
Perms(S) ==
    {seq \in [1..Cardinality(S) -> S] : {seq[i] : i \in 1..Cardinality(S)} = S}

\* car.do after the loop: the unmatched patterns, in the order the range over
\* the map gives, make the not-found error.
DoFinish ==
    /\ \/ pc = "finish"
       \/ pc = "layer" /\ li > Len(filtered)
    /\ \E unmatched \in Perms(Unmatched(pm)) :
          result' = IF Len(unmatched) > 0
                    THEN StringsJoin(unmatched, <<",", " ">>) \o <<" not found in layer">>
                    ELSE NoError
    /\ pc' = "done"
    /\ UNCHANGED <<callVars, image, cfg, filtered, pm, li, ei, out, emitted, fs, reads>>

Next ==
    \/ DoStart
    \/ DoGetImageFails
    \/ ReadFilesystemLayer
    \/ ReadFilesystemLayerFails
    \/ ReadFile
    \/ LayerDone
    \/ DoFinish

Spec == Init /\ [][Next]_vars


(***************************************************************************)
(* Properties of List and Extract                                          *)
(***************************************************************************)

\* The user's patterns.
FilePatterns == {cfg.filePatterns[i] : i \in 1..Len(cfg.filePatterns)}

\* A name without one leading '/'.
Unrooted(name) == IF name # <<>> /\ Head(name) = "/" THEN SubSeq(name, 2, Len(name)) ELSE name

\* The run returned an error of GetImage, of reading a layer or of the callback.
ReadError ==
    /\ result # <<>>
    /\ Head(result) \in {"GetImage error", "ReadFilesystemLayer error",
                         "error calling readFile on "}

\* The run returned "<patterns> not found in layer".
NotFoundError == result # <<>> /\ result[Len(result)] = " not found in layer"

\* The image layers that the created-by pattern accepts, in manifest order.
AcceptedLayers ==
    SelectSeq([i \in 1..Len(image) |-> i],
              LAMBDA i : cfg.createdByPattern.nil
                         \/ Contains(image[i].createdBy, cfg.createdByPattern.re))

\* Pattern p glob-matches an entry of one of the layers read.
MatchesAnEntryRead(p) ==
    \E k \in 1..Len(reads) : \E e \in 1..Len(image[reads[k]].entries) :
        Match(p, Unrooted(image[reads[k]].entries[e].name))

\* C2 (as claimed): when every filtered layer was read without error, the run
\* succeeds exactly when every pattern glob-matches an entry read, and
\* otherwise returns "<P> not found in layer" with P exactly the patterns that
\* match no entry read.
C2_NotFoundExactlyUnmatchedGlobs ==
    (pc = "done" /\ ~ReadError /\ reads = AcceptedLayers) =>
        LET missing == {p \in FilePatterns : ~MatchesAnEntryRead(p)}
        IN  /\ (result = NoError) <=> (missing = {})
            /\ (result # NoError) =>
                  \E P \in Perms(missing) :
                     result = StringsJoin(P, <<",", " ">>) \o <<" not found in layer">>

\* C3 (as claimed): with fast-read and a non-empty pattern list, no more
\* entries are emitted than there are patterns, and no two entries are emitted
\* for the same pattern.
C3_FastReadFirstMatchOnly ==
    (cfg.fastRead /\ FilePatterns # {}) =>
        /\ Len(emitted) <= Len(cfg.filePatterns)
        /\ \A i, j \in 1..Len(emitted) : i < j => emitted[i].by # emitted[j].by

\* The patterns marked by the entries of the first k layers read.
SatisfiedAfter(k) ==
    {emitted[i].by : i \in {j \in 1..Len(emitted) :
                               \E n \in 1..k : reads[n] = emitted[j].layer}}

\* Every pattern was satisfied by the end of the k-th layer read.
AllSatisfiedAfter(k) ==
    cfg.fastRead /\ FilePatterns # {} /\ SatisfiedAfter(k) = FilePatterns

\* C4: with fast-read and a non-empty pattern list, no layer is read after a
\* layer at whose end every pattern was satisfied, and the run then ends
\* without a not-found error; without fast-read, or with no pattern, a run
\* that ends without a read error has read every filtered layer.
C4_FastReadStopsReadingLayers ==
    /\ \A k \in 1..(Len(reads) - 1) : ~AllSatisfiedAfter(k)
    /\ (pc = "done" /\ reads # <<>> /\ AllSatisfiedAfter(Len(reads))) => ~NotFoundError
    /\ (pc = "done" /\ ~ReadError /\ (~cfg.fastRead \/ FilePatterns = {})) =>
          reads = AcceptedLayers

\* Witness of C4: a fast-read run over two accepted layers satisfied its
\* patterns in the first, never read the second and succeeded.
C4_Witness ==
    /\ pc = "done"
    /\ cfg.fastRead
    /\ FilePatterns # {}
    /\ Len(AcceptedLayers) = 2
    /\ Len(reads) = 1
    /\ AllSatisfiedAfter(1)
    /\ result = NoError

RECURSIVE ExpectedNames(_)
\* The names, without a leading '/', of the entries that match the pattern
\* list (all entries when it is empty), over the given layers in order and
\* each layer's entries in tar order.
ExpectedNames(layers) ==
    IF layers = <<>> THEN <<>>
    ELSE LET names == [e \in 1..Len(image[Head(layers)].entries) |->
                          Unrooted(image[Head(layers)].entries[e].name)]
         IN  SelectSeq(names, LAMBDA n : FilePatterns = {}
                                         \/ \E p \in FilePatterns : Match(p, n))
                 \o ExpectedNames(Tail(layers))

\* C5: without fast-read, a run that ends without a read error has emitted
\* (List: printed) exactly the matching entries of the accepted layers, in
\* manifest and tar order; and no layer that the created-by pattern rejects is
\* ever read.
C5_EmitsMatchingEntriesInOrder ==
    /\ \A k \in 1..Len(reads) :
          cfg.createdByPattern.nil
          \/ Contains(image[reads[k]].createdBy, cfg.createdByPattern.re)
    /\ (pc = "done" /\ ~ReadError /\ ~cfg.fastRead) =>
          /\ [i \in 1..Len(emitted) |-> emitted[i].name] = ExpectedNames(AcceptedLayers)
          /\ cfg.fn = "List" => out = ExpectedNames(AcceptedLayers)

\* Witness of C5: a List without fast-read over an image with a rejected and
\* an accepted layer printed an entry whose name had a leading slash and
\* skipped another entry of that layer.
C5_Witness ==
    /\ pc = "done"
    /\ cfg.fn = "List"
    /\ ~cfg.fastRead
    /\ ~ReadError
    /\ Len(image) = 2
    /\ reads = <<2>>
    /\ Len(image[2].entries) = 2
    /\ image[2].entries[2].name = <<"/", "a">>
    /\ out = << <<"a">> >>

\* The emitted entries that Extract writes to dest.
WritersOf(dest) ==
    {i \in 1..Len(emitted) :
        LET d == newDestinationPath(emitted[i].name, cfg.directory, cfg.stripComponents)
        IN  d.ok /\ d.path = dest}

\* C6 (as claimed): after an Extract without read error, every destination
\* file holds exactly the bytes of the last entry extracted to it.
C6_LastEntryOverwrites ==
    (pc = "done" /\ cfg.fn = "Extract" /\ ~ReadError) =>
        \A dest \in DOMAIN fs :
            LET last == CHOOSE i \in WritersOf(dest) : \A j \in WritersOf(dest) : j <= i
                e == emitted[last]
            IN  fs[dest] = Content(e.layer, e.entry, image[e.layer].entries[e.entry].size)


(***************************************************************************)
(* newDestinationPath                                                      *)
(***************************************************************************)

\* Bounds of the newDestinationPath inputs.
MaxNameLen == 4
MaxStripComponents == 3

\* Entry names: every string of 'a', '.', '/' up to MaxNameLen characters.
Names == SeqsUpTo({"a", ".", "/"}, MaxNameLen)
\* Directories "/d" and "d".
Directories == {<<"/", "d">>, <<"d">>}

InitNDP ==
    /\ pc = "call"
    /\ \E name \in Names, directory \in Directories,
          stripComponents \in 0..MaxStripComponents :
          args = [fn |-> "newDestinationPath", name |-> name,
                  directory |-> directory, stripComponents |-> stripComponents]
    /\ ret = Idle
    /\ CarIdle

CallNewDestinationPath ==
    /\ pc = "call"
    /\ args.fn = "newDestinationPath"
    /\ ret' = newDestinationPath(args.name, args.directory, args.stripComponents)
    /\ pc' = "done"
    /\ UNCHANGED <<args, carVars>>

NextNDP == CallNewDestinationPath

SpecNDP == InitNDP /\ [][NextNDP]_vars

\* The positions of the path separators of name.
Separators(name) == {i \in 1..Len(name) : name[i] = "/"}

\* The part of name after its n-th path separator (all of it for n = 0).
AfterSeparator(name, n) ==
    IF n = 0 THEN name
    ELSE LET k == CHOOSE i \in Separators(name) :
                     Cardinality({j \in Separators(name) : j <= i}) = n
         IN  SubSeq(name, k + 1, Len(name))

mediaTypeOCIImageConfig == <<"application/vnd.oci.image.config.v1+json">>
mediaTypeOCIImageIndex == <<"application/vnd.oci.image.index.v1+json">>
mediaTypeOCIImageManifest == <<"application/vnd.oci.image.manifest.v1+json">>
mediaTypeDockerContainerImage == <<"application/vnd.docker.container.image.v1+json">>
mediaTypeDockerManifest == <<"application/vnd.docker.distribution.manifest.v2+json">>
mediaTypeDockerManifestList == <<"application/vnd.docker.distribution.manifest.list.v2+json">>
mediaTypeUnknownImageConfig == <<"application/vnd.unknown.config.v1+json">>
mediaTypeOCIImageLayer == <<"application/vnd.oci.image.layer.v1.tar+gzip">>
mediaTypeDockerImageLayer == <<"application/vnd.docker.image.rootfs.diff.tar.gzip">>
mediaTypeDockerImageForeignLayer ==
    <<"application/vnd.docker.image.rootfs.foreign.diff.tar.gzip">>
mediaTypeWasmImageConfig == <<"application/vnd.module.wasm.config.v1+json">>
mediaTypeWasmImageLayer == <<"application/vnd.module.wasm.content.layer.v1+wasm">>

acceptImageConfigV1 ==
    mediaTypeOCIImageConfig \o <<",">> \o mediaTypeDockerContainerImage
        \o <<",">> \o mediaTypeUnknownImageConfig
acceptImageIndexV1 == mediaTypeOCIImageIndex \o <<",">> \o mediaTypeDockerManifestList
acceptImageManifestV1 == mediaTypeOCIImageManifest \o <<",">> \o mediaTypeDockerManifest

\* httpClient.Get / GetJSON: request number failAt fails (0: none does); the
\* request is logged either way.  Returns [ok, reqs].
HttpGet(reqs, url, accept, failAt) ==
    [ok |-> Len(reqs) + 1 # failAt, reqs |-> Append(reqs, [url |-> url, accept |-> accept])]

\* The platform of an index entry or of a config: pathutil.Join(os, architecture).
PlatformOf(x) == PathJoin(<<x.os, x.architecture>>)

\* A map after m[k] = v.
MapPut(m, k, v) == [x \in DOMAIN m \cup {k} |-> IF x = k THEN v ELSE m[x]]

\* The body of the loop of findPlatformManifest with the os.version comparison
\* left out: the first entry of a platform stays.
PlatformMapsEntry_KeepsFirst(maps, ref, p, url) ==
    IF p = <<>> \/ p \in DOMAIN maps.platformToURL THEN maps
    ELSE [platformToURL |-> MapPut(maps.platformToURL, p, url),
          urlToMediaType |-> MapPut(maps.urlToMediaType, url, ref.mediaType),
          platformToOSVersion |-> MapPut(maps.platformToOSVersion, p, ref.platform.osVersion)]

\* The body of the loop of findPlatformManifest for the entry ref of platform
\* p and manifest URL url.  An entry without platform is skipped; an entry
\* replaces what its platform has when its os.version is >= the one recorded
\* ("" when none is).
PlatformMapsEntry(maps, ref, p, url) ==
    IF p = <<>> THEN maps
    ELSE IF StrGeq(ref.platform.osVersion,
                   IF p \in DOMAIN maps.platformToOSVersion
                   THEN maps.platformToOSVersion[p] ELSE <<>>)
    THEN [platformToURL |-> MapPut(maps.platformToURL, p, url),
          urlToMediaType |-> MapPut(maps.urlToMediaType, url, ref.mediaType),
          platformToOSVersion |-> MapPut(maps.platformToOSVersion, p, ref.platform.osVersion)]
    ELSE maps

RECURSIVE PlatformMaps(_, _)
\* The loop of findPlatformManifest over the index entries: platformToURL,
\* platformToOSVersion and urlToMediaType.
PlatformMaps(manifests, maps) ==
    IF manifests = <<>> THEN maps
    ELSE PlatformMaps(Tail(manifests),
                      PlatformMapsEntry(maps, Head(manifests),
                                        PlatformOf(Head(manifests).platform),
                                        <<"manifests", Head(manifests).digest>>))

NoManifest == [URL |-> <<>>, config |-> [mediaType |-> <<>>, digest |-> <<>>]]

\* findPlatformManifest asking for the manifest with the Accept of the tag request.
findPlatformManifest_AcceptAny(server, index, platform, reqs, failAt) ==
    LET maps == PlatformMaps(index, [platformToURL |-> <<>>, urlToMediaType |-> <<>>,
                                     platformToOSVersion |-> <<>>])
        valid == requireValidPlatform(platform, DOMAIN maps.platformToURL)
    IN  IF valid.err # NoError
        THEN [manifest |-> NoManifest, err |-> valid.err, reqs |-> reqs]
        ELSE LET url == maps.platformToURL[valid.p]
                 get == HttpGet(reqs, url, <<acceptImageIndexV1, acceptImageManifestV1>>, failAt)
             IN  IF ~get.ok
                 THEN [manifest |-> NoManifest,
                       err |-> <<"error getting image ref for platform ">> \o valid.p,
                       reqs |-> get.reqs]
                 ELSE [manifest |-> [URL |-> url, config |-> server.manifests[url[2]].config],
                       err |-> NoError, reqs |-> get.reqs]

\* findPlatformManifest(index, path, platform): [manifest, err, reqs]
findPlatformManifest(server, index, platform, reqs, failAt) ==
    LET maps == PlatformMaps(index, [platformToURL |-> <<>>, urlToMediaType |-> <<>>,
                                     platformToOSVersion |-> <<>>])
        valid == requireValidPlatform(platform, DOMAIN maps.platformToURL)
    IN  IF valid.err # NoError
        THEN [manifest |-> NoManifest, err |-> valid.err, reqs |-> reqs]
        ELSE LET url == maps.platformToURL[valid.p]
                 get == HttpGet(reqs, url, maps.urlToMediaType[url], failAt)
             IN  IF ~get.ok
                 THEN [manifest |-> NoManifest,
                       err |-> <<"error getting image ref for platform ">> \o valid.p,
                       reqs |-> get.reqs]
                 ELSE [manifest |-> [URL |-> url, config |-> server.manifests[url[2]].config],
                       err |-> NoError, reqs |-> get.reqs]

\* getImageManifest(ref, platform): [manifest, err, reqs].  The body of the
\* tag response is decoded as the response's media type says: a manifest
\* decoded as an index has no entries, an index decoded as a manifest has an
\* empty config descriptor.
getImageManifest(server, platform, failAt) ==
    LET url == <<"manifests", <<"tag">>>>
        get == HttpGet(<<>>, url, <<acceptImageIndexV1, acceptImageManifestV1>>, failAt)
        mediaType == server.tag.mediaType
    IN  IF ~get.ok
        THEN [manifest |-> NoManifest, err |-> <<"GET error">>, reqs |-> get.reqs]
        ELSE IF Contains(acceptImageIndexV1, mediaType)
        THEN findPlatformManifest(server,
                                  IF server.tag.kind = "index" THEN server.tag.index ELSE <<>>,
                                  platform, get.reqs, failAt)
        ELSE IF Contains(acceptImageManifestV1, mediaType)
        THEN [manifest |-> IF server.tag.kind = "manifest"
                           THEN [URL |-> url, config |-> server.tag.manifest.config]
                           ELSE [NoManifest EXCEPT !.URL = url],
              err |-> NoError, reqs |-> get.reqs]
        ELSE [manifest |-> NoManifest,
              err |-> <<"unknown mediaType ">> \o mediaType \o <<" from ">> \o url,
              reqs |-> get.reqs]

NoConfig == [os |-> <<>>, architecture |-> <<>>]

\* getImageConfig(path, image): [config, err, reqs]
getImageConfig(server, manifest, reqs, failAt) ==
    IF ~Contains(acceptImageConfigV1, manifest.config.mediaType)
    THEN [config |-> NoConfig, err |-> <<"invalid config media type in image ">> \o manifest.URL,
          reqs |-> reqs]
    ELSE LET url == <<"blobs", manifest.config.digest>>
             get == HttpGet(reqs, url, manifest.config.mediaType, failAt)
         IN  IF ~get.ok \/ manifest.config.digest \notin DOMAIN server.configs
             THEN [config |-> NoConfig, err |-> <<"error getting image config from ">> \o url,
                   reqs |-> get.reqs]
             ELSE [config |-> server.configs[manifest.config.digest], err |-> NoError,
                   reqs |-> get.reqs]

NoImage == [nil |-> TRUE, url |-> <<>>, platform |-> <<>>]

\* newImage that concatenates os, "/" and architecture.
newImage_Concat(manifest, config) ==
    [nil |-> FALSE, url |-> manifest.URL,
     platform |-> config.os \o <<"/">> \o config.architecture]

\* newImage(baseURL, manifest, config): the image's URL and platform.
newImage(manifest, config) ==
    [nil |-> FALSE, url |-> manifest.URL, platform |-> PathJoin(<<config.os, config.architecture>>)]

\* GetImage's validation of the requested platform left out.
requireConfigPlatform_Unchecked(platform, config) == NoError

\* GetImage's validation of the requested platform against the config: the
\* platforms are the config's os/architecture when there is one, and a
\* platform is required to be valid only when one is requested.  Returns the
\* error.
requireConfigPlatform(platform, config) ==
    IF platform = <<>> THEN NoError
    ELSE requireValidPlatform(platform, {PlatformOf(config)} \ {<<>>}).err


\* Bounds of the GetImage inputs.
MaxIndex == 2
MaxRequests == 3

\* os/architecture pairs: none, a/a, a/b; os.version values: none, "1", "2".
OSArchs ==
    {[os |-> <<>>, architecture |-> <<>>],
     [os |-> <<"a">>, architecture |-> <<"a">>],
     [os |-> <<"a">>, architecture |-> <<"b">>]}
OSVersions == {<<>>, <<"1">>, <<"2">>}
RequestedPlatforms == {<<>>, <<"a", "/", "a">>, <<"a", "/", "b">>}

\* The index entry at position i: its manifest has digest <<"sha256", i>> and
\* is an OCI manifest at odd positions, a Docker manifest at even ones.
IndexEntry(i, osArch, osVersion) ==
    [mediaType |-> IF i % 2 = 1 THEN mediaTypeOCIImageManifest ELSE mediaTypeDockerManifest,
     digest |-> <<"sha256", i>>,
     platform |-> [os |-> osArch.os, architecture |-> osArch.architecture,
                   osVersion |-> osVersion]]

\* The manifest whose config blob has digest <<"sha256", d>>.
ManifestOf(configMediaType, d) ==
    [config |-> [mediaType |-> configMediaType, digest |-> <<"sha256", d>>]]

\* A registry whose tag is an index of up to MaxIndex entries; the manifest
\* of entry i refers to config blob MaxIndex + i, whose os/architecture need
\* not be the entry's.
IndexServers ==
    UNION {
        {[tag |-> [mediaType |-> mt, kind |-> "index",
                   index |-> [i \in 1..n |-> IndexEntry(i, e[i][1], e[i][2])],
                   manifest |-> ManifestOf(<<>>, 0)],
          manifests |-> [d \in {<<"sha256", i>> : i \in 1..n} |->
                            ManifestOf(mediaTypeOCIImageConfig, n + d[2])],
          configs |-> [d \in {<<"sha256", n + i>> : i \in 1..n} |-> c[d[2] - n]]] :
            e \in [1..n -> OSArchs \X OSVersions], c \in [1..n -> OSArchs],
            mt \in {mediaTypeOCIImageIndex}} : n \in 0..MaxIndex}

\* A registry whose tag is a single manifest (or something else served with
\* another media type or with none), with a config of any media type, none
\* included, and any os/architecture.
ManifestServers ==
    {[tag |-> [mediaType |-> mt, kind |-> "manifest", index |-> <<>>,
               manifest |-> ManifestOf(cmt, 0)],
      manifests |-> <<>>,
      configs |-> [d \in {<<"sha256", 0>>} |-> c]] :
        mt \in {mediaTypeOCIImageManifest, mediaTypeDockerManifest, <<"text/html">>, <<>>},
        cmt \in {mediaTypeOCIImageConfig, mediaTypeUnknownImageConfig, mediaTypeWasmImageConfig,
                 <<"text/plain">>, <<>>},
        c \in OSArchs}

InitGetImage ==
    /\ pc = "call"
    /\ \E server \in IndexServers \cup ManifestServers,
          platform \in RequestedPlatforms, failAt \in 0..MaxRequests :
          args = [fn |-> "GetImage", server |-> server, platform |-> platform,
                  failAt |-> failAt]
    /\ ret = Idle
    /\ CarIdle

\* GetImage(ref, platform) up to the return of getImageManifest.  ret holds
\* GetImage's locals and what it returns: [manifest, config, image, err, reqs].
GetImageManifest ==
    /\ pc = "call"
    /\ args.fn = "GetImage"
    /\ ret' = getImageManifest(args.server, args.platform, args.failAt)
                  @@ [config |-> NoConfig, image |-> NoImage]
    /\ pc' = IF ret'.err # NoError THEN "done" ELSE "config"
    /\ UNCHANGED <<args, carVars>>

\* GetImage from there up to the return of getImageConfig.
GetImageConfig ==
    /\ pc = "config"
    /\ args.fn = "GetImage"
    /\ ret' = getImageConfig(args.server, ret.manifest, ret.reqs, args.failAt)
                  @@ [manifest |-> ret.manifest, image |-> NoImage]
    /\ pc' = IF ret'.err # NoError THEN "done" ELSE "platform"
    /\ UNCHANGED <<args, carVars>>

\* The rest of GetImage: the platform is validated and the image is built.
GetImagePlatform ==
    /\ pc = "platform"
    /\ args.fn = "GetImage"
    /\ ret' = [ret EXCEPT !.err = requireConfigPlatform(args.platform, ret.config),
                          !.image = IF requireConfigPlatform(args.platform, ret.config) # NoError
                                    THEN NoImage ELSE newImage(ret.manifest, ret.config)]
    /\ pc' = "done"
    /\ UNCHANGED <<args, carVars>>

NextGetImage == GetImageManifest \/ GetImageConfig \/ GetImagePlatform

SpecGetImage == InitGetImage /\ [][NextGetImage]_vars


(***************************************************************************)
(* Properties of GetImage                                                  *)
(***************************************************************************)

GetImageDone == pc = "done" /\ args.fn = "GetImage"

\* os/architecture as the platform string "<os>/<architecture>" (either part
\* alone when the other is absent, "" when both are).
PlatformString(x) ==
    IF x.os = <<>> THEN x.architecture
    ELSE IF x.architecture = <<>> THEN x.os
    ELSE x.os \o <<"/">> \o x.architecture

\* The config blob of the manifest that the returned image was built from.
ConfigServed ==
    LET url == ret.image.url
        manifest == IF url = <<"manifests", <<"tag">>>> THEN args.server.tag.manifest
                    ELSE args.server.manifests[url[2]]
    IN  args.server.configs[manifest.config.digest]

IndexPlatforms ==
    {PlatformString(args.server.tag.index[i].platform) :
        i \in 1..Len(args.server.tag.index)} \ {<<>>}

\* The index entry whose manifest the second request fetched.
EntryFetched == args.server.tag.index[ret.reqs[2].url[2][2]]

\* C9: from an index, the manifest fetched for the selected platform is an
\* entry of that platform whose os.version no entry of that platform exceeds;
\* entries without os and architecture are never fetched and are not among
\* the platforms offered.
C9_GreatestOSVersionSelected ==
    (GetImageDone /\ args.server.tag.kind = "index" /\ args.failAt # 1) =>
        LET index == args.server.tag.index
            selectable == IF args.platform = <<>> THEN Cardinality(IndexPlatforms) = 1
                          ELSE args.platform \in IndexPlatforms
        IN  IF selectable
            THEN /\ Len(ret.reqs) >= 2
                 /\ ret.reqs[2].url[1] = "manifests"
                 /\ PlatformString(EntryFetched.platform) \in IndexPlatforms
                 /\ args.platform # <<>> =>
                       PlatformString(EntryFetched.platform) = args.platform
                 /\ \A i \in 1..Len(index) :
                       PlatformString(index[i].platform) = PlatformString(EntryFetched.platform)
                           => ~StrLess(EntryFetched.platform.osVersion,
                                       index[i].platform.osVersion)
            ELSE /\ Len(ret.reqs) = 1
                 /\ ret.image.nil
                 /\ ret.err =
                       IF IndexPlatforms = {}
                       THEN <<"image config contains no platform information">>
                       ELSE IF args.platform = <<>>
                       THEN <<"choose a platform: ">> \o SortedJoined(IndexPlatforms)
                       ELSE args.platform \o <<" is not a supported platform: ">>
                                \o SortedJoined(IndexPlatforms)

\* Witness of C9: an index with two a/a entries, of os.version "2" and then
\* "1"; the manifest of the first was fetched.
C9_Witness ==
    /\ GetImageDone
    /\ args.server.tag.kind = "index"
    /\ Len(args.server.tag.index) = 2
    /\ \A i \in 1..2 : PlatformString(args.server.tag.index[i].platform) = <<"a", "/", "a">>
    /\ args.server.tag.index[1].platform.osVersion = <<"2">>
    /\ args.server.tag.index[2].platform.osVersion = <<"1">>
    /\ Len(ret.reqs) >= 2
    /\ ret.reqs[2].url = <<"manifests", <<"sha256", 1>>>>

\* The tag resolves directly to a manifest whose config blob is obtained and
\* declares neither os nor architecture.
ManifestWithoutPlatform ==
    /\ args.server.tag.kind = "manifest"
    /\ args.server.tag.mediaType \in {mediaTypeOCIImageManifest, mediaTypeDockerManifest}
    /\ args.server.tag.manifest.config.mediaType \in
          {mediaTypeOCIImageConfig, mediaTypeDockerContainerImage, mediaTypeUnknownImageConfig}
    /\ args.server.configs[args.server.tag.manifest.config.digest]
          = [os |-> <<>>, architecture |-> <<>>]
    /\ args.failAt \notin {1, 2}

TagAnswered == args.failAt # 1

\* C18: when the tag's response has a media type that is none of the two index
\* types and the two manifest types, GetImage fails with "unknown mediaType
\* <type> from <url>" and makes no further request.
C18_UnknownMediaType ==
    (GetImageDone /\ TagAnswered
        /\ args.server.tag.mediaType \notin
              {mediaTypeOCIImageIndex, mediaTypeDockerManifestList,
               mediaTypeOCIImageManifest, mediaTypeDockerManifest}) =>
        /\ ret.image.nil
        /\ ret.err = <<"unknown mediaType ">> \o args.server.tag.mediaType
                         \o <<" from ", "manifests", <<"tag">>>>
        /\ Len(ret.reqs) = 1

\* The requests made for a config blob.
ConfigRequests == {i \in 1..Len(ret.reqs) : ret.reqs[i].url[1] = "blobs"}

\* C19: once GetImage has a manifest, it requests the config blob when the
\* manifest's config media type is the OCI config, the Docker container image,
\* the unknown config or the Wasm config type, and for any other value it makes
\* no config request and fails with "invalid config media type".
C19_ConfigMediaType ==
    (GetImageDone /\ ret.manifest.URL # <<>>) =>
        IF ret.manifest.config.mediaType \in
              {mediaTypeOCIImageConfig, mediaTypeDockerContainerImage,
               mediaTypeUnknownImageConfig, mediaTypeWasmImageConfig}
        THEN Cardinality(ConfigRequests) = 1
        ELSE /\ ConfigRequests = {}
             /\ ret.image.nil
             /\ ret.err # <<>>
             /\ Head(ret.err) = "invalid config media type in image "


\* What each request of GetImage asks for: the tag, a manifest by digest, or
\* a config blob.
RequestKinds ==
    [i \in 1..Len(ret.reqs) |->
        IF ret.reqs[i].url = <<"manifests", <<"tag">>>> THEN "tag"
        ELSE IF ret.reqs[i].url[1] = "manifests" THEN "manifest"
        ELSE "config"]

\* C30: GetImage asks for the tag, then, only when the tag's response is an
\* index, for the manifest of an entry of the requested platform by its digest
\* with the entry's media type as Accept, then for the config blob, each at
\* most once; when no entry of an index is selected, nothing is asked after
\* the tag.
C30_RequestOrder ==
    (args.fn = "GetImage" /\ pc # "call") =>
        /\ RequestKinds \in {<<"tag">>, <<"tag", "manifest">>, <<"tag", "config">>,
                              <<"tag", "manifest", "config">>}
        /\ ret.reqs[1].accept = <<acceptImageIndexV1, acceptImageManifestV1>>
        /\ (Len(ret.reqs) >= 2 /\ RequestKinds[2] = "manifest") =>
              /\ args.server.tag.mediaType \in {mediaTypeOCIImageIndex, mediaTypeDockerManifestList}
              /\ \E i \in 1..Len(args.server.tag.index) :
                    LET entry == args.server.tag.index[i]
                    IN  /\ ret.reqs[2].url = <<"manifests", entry.digest>>
                        /\ ret.reqs[2].accept = entry.mediaType
                        /\ args.platform # <<>> => PlatformString(entry.platform) = args.platform
        /\ (args.server.tag.mediaType \in {mediaTypeOCIImageIndex, mediaTypeDockerManifestList}
               /\ (Len(ret.reqs) < 2 \/ RequestKinds[2] # "manifest")) =>
              Len(ret.reqs) = 1

\* Witness of C30: the tag is an index, the second entry, a Docker manifest,
\* is selected, and the three requests are made.
C30_Witness ==
    /\ GetImageDone
    /\ args.server.tag.kind = "index"
    /\ Len(ret.reqs) = 3
    /\ ret.reqs[2].url = <<"manifests", <<"sha256", 2>>>>
    /\ ret.reqs[2].accept = mediaTypeDockerManifest
    /\ ret.reqs[3].url[1] = "blobs"
    /\ ret.err = NoError

(***************************************************************************)
(* registry: layer assembly (newImage, filterLayers)                       *)
(*                                                                         *)
(* A created_by is a sequence of tokens: its words and, one token each,    *)
(* the spaces between them.  A manifest layer is [mediaType, digest], its  *)
(* digest being <<"sha256", j>> for the layer at position j; a history     *)
(* entry is [createdBy, emptyLayer].                                       *)
(***************************************************************************)

ignoredDockerDirectives ==
    {"ARG", "CMD", "ENTRYPOINT", "ENV", "EXPOSE", "HEALTHCHECK", "LABEL", "MAINTAINER",
     "ONBUILD", "SHELL", "STOPSIGNAL", "USER", "VOLUME", "WORKDIR"}

\* skipCreatedByPattern.MatchString(createdBy) for the pattern
\* ".* +(?:ARG|...|WORKDIR) .*": the match is not anchored, so it holds when
\* a directive's name stands between a space and a space anywhere in createdBy.
skipCreatedByPattern(createdBy) ==
    \E i \in 2..(Len(createdBy) - 1) :
        /\ createdBy[i] \in ignoredDockerDirectives
        /\ createdBy[i - 1] = " "
        /\ createdBy[i + 1] = " "

\* newFilesystemLayer(l, baseURL, createdBy)
newFilesystemLayer(l, createdBy) ==
    [url |-> <<"blobs", l.digest>>, mediaType |-> l.mediaType, createdBy |-> createdBy]

\* The loop "for history[k].EmptyLayer { k++ }" that does not skip.
SkipEmptyLayers_None(history, k) == IF k > Len(history) THEN 0 ELSE k

RECURSIVE SkipEmptyLayers(_, _)
\* The loop "for history[k].EmptyLayer { k++ }" (k counts from 1 here): the k
\* it ends at, or 0 when it indexes past the history, which panics.
SkipEmptyLayers(history, k) ==
    IF k > Len(history) THEN 0
    ELSE IF history[k].emptyLayer THEN SkipEmptyLayers(history, k + 1)
    ELSE k

\* The result of filterLayers: the layers, or a panic (index out of range).
Panic == [panic |-> TRUE, layers |-> <<>>]

RECURSIVE filterLayersLoop(_, _, _, _, _)
RECURSIVE filterLayersBody(_, _, _, _, _)
\* The body of the loop of filterLayers for layer j, k being past the empty
\* history entries: k advances, and the layer is appended unless it is foreign
\* or its created_by matches skipCreatedByPattern.
filterLayersBody(layers, history, j, k, kept) ==
    IF k = 0 THEN Panic
    ELSE filterLayersLoop(layers, history, j + 1, k + 1,
            IF layers[j].mediaType = mediaTypeDockerImageForeignLayer THEN kept
            ELSE IF skipCreatedByPattern(history[k].createdBy) THEN kept
            ELSE Append(kept, newFilesystemLayer(layers[j], history[k].createdBy)))

\* The loop of filterLayers from layer j and history entry k on.
filterLayersLoop(layers, history, j, k, kept) ==
    IF j > Len(layers) THEN [panic |-> FALSE, layers |-> kept]
    ELSE filterLayersBody(layers, history, j, SkipEmptyLayers(history, k), kept)

\* filterLayers(baseURL, manifest, config): an empty history is back-filled
\* with one zero entry per manifest layer.
filterLayers(manifest, config) ==
    filterLayersLoop(manifest.layers,
                     IF Len(config.history) = 0
                     THEN [i \in 1..Len(manifest.layers) |->
                              [createdBy |-> <<>>, emptyLayer |-> FALSE]]
                     ELSE config.history,
                     1, 1, <<>>)

\* Bounds of the filterLayers inputs.
MaxManifestLayers == 2
MaxHistory == 3

\* Layer media types: the Docker layer, the foreign Docker layer, the Wasm
\* layer, and the uncompressed OCI layer.
LayerMediaTypes ==
    {mediaTypeDockerImageLayer, mediaTypeDockerImageForeignLayer, mediaTypeWasmImageLayer,
     <<"application/vnd.oci.image.layer.v1.tar">>}

\* created_by values: "", "ADD x", "sh #(nop)  ENV x" and "ADD ENV x".
HistoryCreatedBys ==
    {<<>>,
     <<"ADD", " ", "x">>,
     <<"sh", " ", "#(nop)", " ", " ", "ENV", " ", "x">>,
     <<"ADD", " ", "ENV", " ", "x">>}

ManifestLayers ==
    UNION {{[j \in 1..n |-> [mediaType |-> mt[j], digest |-> <<"sha256", j>>]] :
               mt \in [1..n -> LayerMediaTypes]} : n \in 0..MaxManifestLayers}

Histories == SeqsUpTo([createdBy : HistoryCreatedBys, emptyLayer : BOOLEAN], MaxHistory)

InitFilterLayers ==
    /\ pc = "call"
    /\ \E layers \in ManifestLayers, history \in Histories :
          args = [fn |-> "filterLayers", manifest |-> [layers |-> layers],
                  config |-> [history |-> history]]
    /\ ret = Idle
    /\ CarIdle

CallFilterLayers ==
    /\ pc = "call"
    /\ args.fn = "filterLayers"
    /\ ret' = filterLayers(args.manifest, args.config)
    /\ pc' = "done"
    /\ UNCHANGED <<args, carVars>>

NextFilterLayers == CallFilterLayers

SpecFilterLayers == InitFilterLayers /\ [][NextFilterLayers]_vars


(***************************************************************************)
(* Properties of layer assembly                                            *)
(***************************************************************************)

FilterLayersDone == pc = "done" /\ args.fn = "filterLayers"

\* The history entries whose empty_layer is false, in order.
NonEmptyEntries == SelectSeq(args.config.history, LAMBDA h : ~h.emptyLayer)

\* The created_by that belongs to the manifest layer at position j.
BoundCreatedBy(j) ==
    IF args.config.history = <<>> THEN <<>> ELSE NonEmptyEntries[j].createdBy

\* The manifest position of a layer of the image.
LayerPosition(layer) == layer.url[2][2]

\* The manifest positions of the layers that are neither foreign nor bound to
\* a created_by that the ignored-directive pattern matches.
PositionsKept ==
    SelectSeq([j \in 1..Len(args.manifest.layers) |-> j],
              LAMBDA j : /\ args.manifest.layers[j].mediaType # mediaTypeDockerImageForeignLayer
                         /\ ~skipCreatedByPattern(BoundCreatedBy(j)))

\* C11: when layer assembly completes, every manifest layer has a history
\* entry of its own and the layer kept from manifest position j
\* carries the created_by of the j-th history entry whose empty_layer is false
\* (the empty created_by when there is no history), whichever earlier layers
\* were dropped; the layers kept are those that are not foreign and whose
\* created_by, so bound, is not an ignored directive.
C11_CreatedByBoundByPosition ==
    (FilterLayersDone /\ ~ret.panic) =>
        /\ args.config.history # <<>> => Len(NonEmptyEntries) >= Len(args.manifest.layers)
        /\ [i \in 1..Len(ret.layers) |-> LayerPosition(ret.layers[i])] = PositionsKept
        /\ \A i \in 1..Len(ret.layers) :
              ret.layers[i].createdBy = BoundCreatedBy(LayerPosition(ret.layers[i]))

\* Witness of C11: the first layer is foreign and dropped, the first history
\* entry is an empty layer; the second layer is kept with the created_by of the
\* third history entry.
C11_Witness ==
    /\ FilterLayersDone
    /\ ~ret.panic
    /\ Len(args.manifest.layers) = 2
    /\ args.manifest.layers[1].mediaType = mediaTypeDockerImageForeignLayer
    /\ args.config.history =
          <<[createdBy |-> <<"ADD", " ", "x">>, emptyLayer |-> TRUE],
            [createdBy |-> <<>>, emptyLayer |-> FALSE],
            [createdBy |-> <<"ADD", " ", "x">>, emptyLayer |-> FALSE]>>
    /\ ret.layers = <<[url |-> <<"blobs", <<"sha256", 2>>>>,
                       mediaType |-> mediaTypeDockerImageLayer,
                       createdBy |-> <<"ADD", " ", "x">>]>>

\* The layer media types that ReadFilesystemLayer can read as a filesystem layer.
RecognizedLayerTypes ==
    {mediaTypeOCIImageLayer, mediaTypeDockerImageLayer, mediaTypeWasmImageLayer}

\* C12: every layer that layer assembly keeps has a recognized layer media
\* type, and the kept layers are in manifest order.
C12_KeptLayersAreRecognized ==
    (FilterLayersDone /\ ~ret.panic) =>
        /\ \A i \in 1..Len(ret.layers) : ret.layers[i].mediaType \in RecognizedLayerTypes
        /\ \A i \in 1..(Len(ret.layers) - 1) :
              LayerPosition(ret.layers[i]) < LayerPosition(ret.layers[i + 1])

\* The words of a created_by.
Words(createdBy) == SelectSeq(createdBy, LAMBDA t : t # " ")

\* The Dockerfile step a created_by denotes: the word after "#(nop)" where
\* there is one, else the first word when it names a step, else RUN (a shell
\* command); none for the empty created_by.
StepOf(createdBy) ==
    LET w == Words(createdBy)
    IN  IF w = <<>> THEN ""
        ELSE IF \E i \in 1..(Len(w) - 1) : w[i] = "#(nop)"
        THEN w[1 + CHOOSE i \in 1..(Len(w) - 1) :
                      w[i] = "#(nop)" /\ \A m \in 1..(i - 1) : w[m] # "#(nop)"]
        ELSE IF w[1] \in ignoredDockerDirectives \cup {"ADD", "COPY", "RUN"} THEN w[1]
        ELSE "RUN"

\* The manifest positions of the layers kept.
PositionsReturned == {LayerPosition(ret.layers[i]) : i \in 1..Len(ret.layers)}

\* C13: a layer that is not foreign and whose history entry is an ADD, COPY or
\* RUN step is kept, and one that is dropped without being foreign has a
\* history entry that denotes an ignored directive.
C13_OnlyIgnoredDirectivesDropped ==
    (FilterLayersDone /\ ~ret.panic) =>
        \A j \in 1..Len(args.manifest.layers) :
            args.manifest.layers[j].mediaType # mediaTypeDockerImageForeignLayer =>
                /\ StepOf(BoundCreatedBy(j)) \in {"ADD", "COPY", "RUN"}
                      => j \in PositionsReturned
                /\ j \notin PositionsReturned
                      => StepOf(BoundCreatedBy(j)) \in ignoredDockerDirectives


\* C28: layer assembly returns a layer list for every manifest and config
\* and never indexes the history past its end, also when a non-empty history
\* has fewer entries with empty_layer false than the manifest has layers or
\* ends in entries with empty_layer true.
C28_HistoryNeverReadPastItsEnd ==
    FilterLayersDone => ~ret.panic

(***************************************************************************)
(* registry.ReadFilesystemLayer                                            *)
(*                                                                         *)
(* A layer is [url, mediaType, size, fileName]; the blob served for it is  *)
(* a sequence of tar headers [typeflag, name, size, mode, modTime], mode   *)
(* being the header's mode bits.  ret holds the requests made, the calls   *)
(* of the callback (its arguments and what it returned), the position in   *)
(* the archive and the error returned.                                     *)
(***************************************************************************)

\* The switch on the media type with the foreign Docker layer among the tar.gz cases.
isTarGz_Foreign(mediaType) ==
    IF mediaType \in {mediaTypeOCIImageLayer, mediaTypeDockerImageLayer,
                      mediaTypeDockerImageForeignLayer} THEN "tarGz"
    ELSE IF mediaType \in {mediaTypeWasmImageLayer, mediaTypeWasmImageConfig} THEN "raw"
    ELSE "unexpected"

\* The switch on the media type: "tarGz" (isTarGz), "raw" (not isTarGz) or
\* "unexpected" (the default case).
isTarGz(mediaType) ==
    IF mediaType \in {mediaTypeOCIImageLayer, mediaTypeDockerImageLayer} THEN "tarGz"
    ELSE IF mediaType \in {mediaTypeWasmImageLayer, mediaTypeWasmImageConfig} THEN "raw"
    ELSE "unexpected"

\* The loop's two skips left out: every entry is handed to the callback.
TarEntryIsRead_Always(th) == TRUE

\* An entry the loop does not skip: a regular file whose name does not contain ".wh.".
TarEntryIsRead(th) ==
    /\ th.typeflag = "TypeReg"
    /\ ~Contains(th.name, <<".", "w", "h", ".">>)

\* th.FileInfo().Mode() of a regular file: the permission bits of the header's
\* mode, and ModeSetuid (1<<23) for the header's set-uid bit (0o4000).
FileInfoMode(th) ==
    (th.mode % 512) + (IF (th.mode \div 2048) % 2 = 1 THEN 8388608 ELSE 0)

\* The mode handed to the callback: 0o644 when mode.Perm() is 0.
TarEntryMode(th) == IF FileInfoMode(th) % 512 = 0 THEN 420 ELSE FileInfoMode(th)

\* The callback's arguments for the tar entry at position i.
TarEntryCall(th, i) ==
    [name |-> th.name, size |-> th.size, mode |-> TarEntryMode(th), modTime |-> th.modTime,
     reader |-> <<"tar", i>>]

\* The callback's arguments for a Wasm layer given mode 0.
WasmCall_NoMode(layer) ==
    [name |-> layer.fileName, size |-> layer.size, mode |-> 0, modTime |-> "now",
     reader |-> <<"body">>]

\* The callback's arguments for a Wasm layer: the file name, the layer's size,
\* 0o644, time.Now() and the response body.
WasmCall(layer) ==
    [name |-> layer.fileName, size |-> layer.size, mode |-> 420, modTime |-> "now",
     reader |-> <<"body">>]

\* Bounds of the ReadFilesystemLayer inputs.
MaxTarEntries == 3

\* Tar headers: regular files "a", "b" (mode 0), "c" (set-uid, no permission
\* bits), "b" (0o4755), ".wh.a" and "a.wh"; a directory "d"; a symlink "a".
TarHeaders ==
    {[typeflag |-> "TypeReg", name |-> <<"a">>, size |-> 1, mode |-> 420, modTime |-> 1],
     [typeflag |-> "TypeReg", name |-> <<"b">>, size |-> 2, mode |-> 0, modTime |-> 2],
     [typeflag |-> "TypeReg", name |-> <<"c">>, size |-> 1, mode |-> 2048, modTime |-> 1],
     [typeflag |-> "TypeReg", name |-> <<"b">>, size |-> 1, mode |-> 2541, modTime |-> 2],
     [typeflag |-> "TypeReg", name |-> <<".", "w", "h", ".", "a">>, size |-> 0, mode |-> 420,
      modTime |-> 2],
     [typeflag |-> "TypeReg", name |-> <<"a", ".", "w", "h">>, size |-> 1, mode |-> 493,
      modTime |-> 1],
     [typeflag |-> "TypeDir", name |-> <<"d">>, size |-> 0, mode |-> 493, modTime |-> 1],
     [typeflag |-> "TypeSymlink", name |-> <<"a">>, size |-> 0, mode |-> 511, modTime |-> 2]}

\* Layers of every media type, with and without a file name.
ReadLayers ==
    [url : {<<"blobs", <<"sha256", 1>>>>},
     mediaType : {mediaTypeOCIImageLayer, mediaTypeDockerImageLayer, mediaTypeWasmImageLayer,
                  mediaTypeWasmImageConfig, mediaTypeDockerImageForeignLayer,
                  <<"application/json">>},
     size : {7},
     fileName : {<<>>, <<"f">>}]

\* A return that closes the body only when no error is returned.
RunDeferred_OnSuccess(r) ==
    IF r.err = NoError /\ \E i \in 1..Len(r.deferred) : r.deferred[i] = "body.Close"
    THEN [r EXCEPT !.body = "closed", !.deferred = <<>>]
    ELSE [r EXCEPT !.deferred = <<>>]

\* A return of ReadFilesystemLayer runs the deferred calls: body.Close() once
\* it has been deferred.
RunDeferred(r) ==
    IF \E i \in 1..Len(r.deferred) : r.deferred[i] = "body.Close"
    THEN [r EXCEPT !.body = "closed", !.deferred = <<>>]
    ELSE [r EXCEPT !.deferred = <<>>]

InitRFL ==
    /\ pc = "call"
    /\ \E layer \in ReadLayers, blob \in SeqsUpTo(TarHeaders, MaxTarEntries) :
          args = [fn |-> "ReadFilesystemLayer", layer |-> layer, blob |-> blob]
    /\ ret = [reqs |-> <<>>, calls |-> <<>>, i |-> 1, err |-> NoError,
              body |-> "none", deferred |-> <<>>]
    /\ CarIdle

\* The switch's default case: the media type is unexpected.
RFLUnexpected ==
    /\ pc = "call"
    /\ args.fn = "ReadFilesystemLayer"
    /\ isTarGz(args.layer.mediaType) = "unexpected"
    /\ ret' = RunDeferred([ret EXCEPT !.err = <<"unexpected media type: ">> \o args.layer.mediaType])
    /\ pc' = "done"
    /\ UNCHANGED <<args, carVars>>

\* The GET of the layer's blob, which fails, or succeeds with a body whose
\* Close is deferred.
RFLGet ==
    /\ pc = "call"
    /\ args.fn = "ReadFilesystemLayer"
    /\ isTarGz(args.layer.mediaType) # "unexpected"
    /\ \E ok \in BOOLEAN :
          /\ ret' = [ret EXCEPT !.reqs = Append(@, [url |-> args.layer.url,
                                                    accept |-> args.layer.mediaType]),
                                !.err = IF ok THEN NoError ELSE <<"GET error">>,
                                !.body = IF ok THEN "open" ELSE @,
                                !.deferred = IF ok THEN Append(@, "body.Close") ELSE @]
          /\ pc' = IF ~ok THEN "done" ELSE isTarGz(args.layer.mediaType)
    /\ UNCHANGED <<args, carVars>>

\* gzip.NewReader or tr.Next fails: the error is returned.
RFLReadFails ==
    /\ pc = "tarGz"
    /\ ret' = RunDeferred([ret EXCEPT !.err = <<"gzip or tar error">>])
    /\ pc' = "done"
    /\ UNCHANGED <<args, carVars>>

\* tr.Next returns the header at position i: the entry is skipped, or handed
\* to the callback, which returns nil or an error.
RFLNext ==
    /\ pc = "tarGz"
    /\ ret.i <= Len(args.blob)
    /\ IF ~TarEntryIsRead(args.blob[ret.i])
       THEN /\ ret' = [ret EXCEPT !.i = @ + 1]
            /\ pc' = pc
       ELSE \E err \in {NoError, <<"callback error">>} :
               /\ LET r == [ret EXCEPT
                                   !.i = @ + 1,
                                   !.calls = Append(@, TarEntryCall(args.blob[ret.i], ret.i)
                                                           @@ [returned |-> err]),
                                   !.err = IF err = NoError THEN NoError
                                           ELSE readFileError(args.blob[ret.i].name, err)]
                  IN  ret' = IF err = NoError THEN r ELSE RunDeferred(r)
               /\ pc' = IF err = NoError THEN pc ELSE "done"
    /\ UNCHANGED <<args, carVars>>

\* tr.Next returns io.EOF: ReadFilesystemLayer returns nil.
RFLEOF ==
    /\ pc = "tarGz"
    /\ ret.i > Len(args.blob)
    /\ ret' = RunDeferred(ret)
    /\ pc' = "done"
    /\ UNCHANGED <<args, carVars>>

\* The layer is not a tar.gz: without a file name the error is "missing
\* filename", else the callback is called and its result returned.
RFLRaw ==
    /\ pc = "raw"
    /\ IF args.layer.fileName = <<>>
       THEN ret' = RunDeferred([ret EXCEPT !.err = <<"missing filename">>])
       ELSE \E err \in {NoError, <<"callback error">>} :
               ret' = RunDeferred([ret EXCEPT !.calls = Append(@, WasmCall(args.layer)
                                                                   @@ [returned |-> err]),
                                              !.err = err])
    /\ pc' = "done"
    /\ UNCHANGED <<args, carVars>>

NextRFL == RFLUnexpected \/ RFLGet \/ RFLReadFails \/ RFLNext \/ RFLEOF \/ RFLRaw

SpecRFL == InitRFL /\ [][NextRFL]_vars


(***************************************************************************)
(* Properties of ReadFilesystemLayer                                       *)
(***************************************************************************)

RFLDone == pc = "done" /\ args.fn = "ReadFilesystemLayer"

\* The blob was obtained: the GET was made and did not fail.
BlobObtained == ret.reqs # <<>> /\ ret.err # <<"GET error">>

\* The positions before n of the regular files whose name has no ".wh.".
RegularFilesBefore(n) ==
    SelectSeq([i \in 1..(n - 1) |-> i],
              LAMBDA i : /\ args.blob[i].typeflag = "TypeReg"
                         /\ \A k \in 1..(Len(args.blob[i].name) - 3) :
                               SubSeq(args.blob[i].name, k, k + 3) # <<".", "w", "h", ".">>)

\* What the callback is to receive for the header th: name, size and
\* modification time as they are, and the mode with 0o644 in place of
\* permission bits that are all zero.
Received(th) ==
    [name |-> th.name, size |-> th.size, modTime |-> th.modTime,
     mode |-> IF th.mode % 512 = 0 THEN 420 ELSE FileInfoMode(th)]

\* A call of the callback without the reader and the result.
Arguments(call) ==
    [name |-> call.name, size |-> call.size, modTime |-> call.modTime, mode |-> call.mode]

C16_WasmLayer ==
    (RFLDone /\ args.layer.mediaType = mediaTypeWasmImageLayer /\ BlobObtained) =>
        IF args.layer.fileName # <<>>
        THEN /\ Len(ret.calls) = 1
             /\ ret.calls[1].name = args.layer.fileName
             /\ ret.calls[1].size = args.layer.size
             /\ ret.calls[1].mode = 420
             /\ ret.calls[1].reader = <<"body">>
             /\ ret.err = ret.calls[1].returned
        ELSE /\ ret.calls = <<>>
             /\ ret.err = <<"missing filename">>

\* Witness of C16: a Wasm layer named "f" whose callback failed.
C16_Witness ==
    /\ RFLDone
    /\ args.layer.mediaType = mediaTypeWasmImageLayer
    /\ args.layer.fileName = <<"f">>
    /\ Len(ret.calls) = 1
    /\ ret.err = <<"callback error">>

C26_BodyClosedOnReturn ==
    RFLDone =>
        /\ ret.body # "open"
        /\ BlobObtained => ret.body = "closed"

\* Witness of C26: a callback error ended the reading of a tar.gz layer and
\* the body is closed.
C26_Witness ==
    /\ RFLDone
    /\ ret.calls # <<>>
    /\ ret.err = readFileError(ret.calls[Len(ret.calls)].name, <<"callback error">>)
    /\ ret.body = "closed"

(***************************************************************************)
(* patternmatcher: calls of MatchesPattern on one matcher                  *)
(***************************************************************************)

\* Bounds of the pattern matcher's inputs.
MaxMatcherPatterns == 2
MaxCalls == 2

\* Patterns "*", "a", "a/*", "?/b" and names "a", "b", "a/b", "/a".
MatcherPatterns == {<<"*">>, <<"a">>, <<"a", "/", "*">>, <<"?", "/", "b">>}
MatcherNames == {<<"a">>, <<"b">>, <<"a", "/", "b">>, <<"/", "a">>}

\* patternmatcher.New(patterns, fastRead); ret is the last call of
\* MatchesPattern: its name, what it returned, the number of calls so far and
\* the patterns the calls so far have marked.
InitMatcher ==
    /\ pc = "call"
    /\ \E patterns \in SeqsUpTo(MatcherPatterns, MaxMatcherPatterns) :
          /\ \E fastRead \in BOOLEAN :
                args = [fn |-> "MatchesPattern", patterns |-> patterns, fastRead |-> fastRead]
          /\ pm = NewPatternMatcher(patterns)
    /\ ret = [name |-> <<>>, ok |-> FALSE, n |-> 0, marked |-> {}]
    /\ image = <<>>
    /\ cfg = Idle
    /\ filtered = <<>>
    /\ li = 0
    /\ ei = 0
    /\ out = <<>>
    /\ emitted = <<>>
    /\ fs = <<>>
    /\ reads = <<>>
    /\ result = <<>>

CallMatchesPattern ==
    /\ pc = "call"
    /\ args.fn = "MatchesPattern"
    /\ ret.n < MaxCalls
    /\ \E name \in MatcherNames : \E o \in MatchesPattern(pm, name) :
          /\ pm' = o.pm
          /\ ret' = [name |-> name, ok |-> o.ok, n |-> ret.n + 1,
                     marked |-> IF o.ok /\ DOMAIN pm # {} THEN ret.marked \cup {o.by} ELSE ret.marked]
    /\ UNCHANGED <<pc, args, image, cfg, filtered, li, ei, out, emitted, fs, reads, result>>

NextMatcher == CallMatchesPattern

SpecMatcher == InitMatcher /\ [][NextMatcher]_vars

\* A glob matches a name when the name can be cut into one piece per pattern
\* character: for '*' any run without '/', for '?' one character other than
\* '/', for any other character that character.  cut[i] is where piece i ends.
GlobMatches(pattern, name) ==
    \E cut \in [0..Len(pattern) -> 0..Len(name)] :
        /\ cut[0] = 0
        /\ cut[Len(pattern)] = Len(name)
        /\ \A i \in 1..Len(pattern) :
              IF pattern[i] = "*"
              THEN /\ cut[i - 1] <= cut[i]
                   /\ \A k \in (cut[i - 1] + 1)..cut[i] : name[k] # "/"
              ELSE /\ cut[i] = cut[i - 1] + 1
                   /\ IF pattern[i] = "?" THEN name[cut[i]] # "/"
                      ELSE name[cut[i]] = pattern[i]

\* C20: a call MatchesPattern(name) returns true exactly when there is no
\* pattern or some pattern glob-matches name; returning true with patterns, it
\* sets the flag of one pattern that matches name and leaves every other flag
\* as it was; returning false, it leaves every flag as it was.
C20_MatchesPattern ==
    [][args.fn = "MatchesPattern" =>
          /\ ret'.ok = (DOMAIN pm = {} \/ \E p \in DOMAIN pm : GlobMatches(p, ret'.name))
          /\ (ret'.ok /\ DOMAIN pm # {}) =>
                \E p \in DOMAIN pm :
                    /\ GlobMatches(p, ret'.name)
                    /\ pm' = [pm EXCEPT ![p] = TRUE]
          /\ ~ret'.ok => pm' = pm]_vars

\* Witness of C20: of the patterns "*" and "a", which both match "a", the
\* first call, on "a", has marked "*" alone.
C20_Witness ==
    /\ args.fn = "MatchesPattern"
    /\ ret.name = <<"a">>
    /\ ret.ok
    /\ ret.n = 1
    /\ DOMAIN pm = {<<"*">>, <<"a">>}
    /\ pm[<<"*">>]
    /\ ~pm[<<"a">>]

\* The patterns the matcher was made with.
PatternsGiven == {args.patterns[i] : i \in 1..Len(args.patterns)}

\* C21: after any calls of MatchesPattern, StillMatching() is false exactly
\* when fastRead is on, there are patterns and the calls have marked every one
\* of them; Unmatched() is the patterns no call has marked.
C21_StillMatchingAndUnmatched ==
    args.fn = "MatchesPattern" =>
        /\ ~StillMatching(pm, args.fastRead) <=>
              (args.fastRead /\ PatternsGiven # {} /\ PatternsGiven \subseteq ret.marked)
        /\ Unmatched(pm) = PatternsGiven \ ret.marked

\* Witness of C21: with fastRead, two calls have marked both patterns and
\* StillMatching() is false.
C21_Witness ==
    /\ args.fn = "MatchesPattern"
    /\ args.fastRead
    /\ Cardinality(PatternsGiven) = 2
    /\ ret.marked = PatternsGiven
    /\ ~StillMatching(pm, args.fastRead)

(***************************************************************************)
(* reference.Parse                                                         *)
(***************************************************************************)

\* A reference is a sequence of pieces: the bytes ':', '/' and '.' each on
\* their own, and runs of other bytes ("a") or the run "docker.io", whose dot
\* is the only separator byte inside a piece.
HasByte(piece, b) == piece = b \/ (b = "." /\ piece = "docker.io")

\* strings.IndexByte and strings.LastIndexByte, counted from 0 in pieces;
\* -1 when the byte does not occur.
IndexByte(str, b) ==
    IF \E i \in 1..Len(str) : HasByte(str[i], b)
    THEN (CHOOSE i \in 1..Len(str) :
             HasByte(str[i], b) /\ \A j \in 1..(i - 1) : ~HasByte(str[j], b)) - 1
    ELSE -1

LastIndexByte(str, b) ==
    IF \E i \in 1..Len(str) : HasByte(str[i], b)
    THEN (CHOOSE i \in 1..Len(str) :
             HasByte(str[i], b) /\ \A j \in (i + 1)..Len(str) : ~HasByte(str[j], b)) - 1
    ELSE -1

\* str[from:to]
Slice(str, from, to) == SubSeq(str, from + 1, to)

\* Parse returning nil and an error.
ParseError(err) == [domain |-> <<>>, path |-> <<>>, tag |-> <<>>, err |-> err]

\* Parse(ref)
Parse(ref) ==
    LET indexColon == LastIndexByte(ref, ":")
        indexSlash == IndexByte(ref, "/")
        tag == Slice(ref, indexColon + 1, Len(ref))
        remaining == Slice(ref, 0, indexColon)
    IN  IF ref = <<>> THEN ParseError(<<"invalid reference format">>)
        ELSE IF indexColon = -1 \/ indexSlash > indexColon
        THEN ParseError(<<"expected tagged reference">>)
        ELSE IF indexSlash = -1
        THEN [domain |-> <<"docker.io">>, path |-> <<"library", "/">> \o remaining,
              tag |-> tag, err |-> NoError]
        ELSE IF LastIndexByte(ref, "/") = indexSlash /\ IndexByte(remaining, ".") = -1
        THEN [domain |-> <<"docker.io">>, path |-> remaining, tag |-> tag, err |-> NoError]
        ELSE [domain |-> Slice(remaining, 0, indexSlash),
              path |-> Slice(remaining, indexSlash + 1, Len(remaining)),
              tag |-> tag, err |-> NoError]

\* Bound of the references parsed, in pieces.
MaxRefLen == 7

RefPieces == {"a", "docker.io", ".", ":", "/"}

\* References with a port, as in Test_Parse: hosts "a" and "a.a", port "a",
\* paths of one and two segments, with the tag "a" and without a tag.
RefHosts == {<<"a">>, <<"a", ".", "a">>}
RefPaths == {<<"a">>, <<"a", "/", "a">>}
PortReferences ==
    {host \o <<":", "a", "/">> \o path \o tag :
        host \in RefHosts, path \in RefPaths, tag \in {<<>>, <<":", "a">>}}

References == SeqsUpTo(RefPieces, MaxRefLen) \cup PortReferences

InitParse ==
    /\ pc = "call"
    /\ \E ref \in References : args = [fn |-> "Parse", ref |-> ref]
    /\ ret = Idle
    /\ CarIdle

CallParse ==
    /\ pc = "call"
    /\ args.fn = "Parse"
    /\ ret' = Parse(args.ref)
    /\ pc' = "done"
    /\ UNCHANGED <<args, carVars>>

NextParse == CallParse

SpecParse == InitParse /\ [][NextParse]_vars

(***************************************************************************)
(* Properties of Parse                                                     *)
(***************************************************************************)

ParseDone == pc = "done" /\ args.fn = "Parse"

\* A name or tag: "a" or "docker.io" alone.
RefWords == {<<"a">>, <<"docker.io">>}

\* C22: Parse never returns the domain docker.io; <name>:<tag> gives
\* (index.docker.io, library/<name>, <tag>), <user>/<name>:<tag> gives
\* (index.docker.io, <user>/<name>, <tag>), and docker.io/<path>:<tag> gives
\* index.docker.io with <path>.
C22_NeverDockerIo ==
    ParseDone =>
        /\ ret.err = NoError => ret.domain # <<"docker.io">>
        /\ \A name \in RefWords, tag \in RefWords :
              /\ args.ref = name \o <<":">> \o tag =>
                    ret = [domain |-> <<"index.docker.io">>, path |-> <<"library", "/">> \o name,
                           tag |-> tag, err |-> NoError]
              /\ args.ref = <<"a", "/">> \o name \o <<":">> \o tag =>
                    ret = [domain |-> <<"index.docker.io">>, path |-> <<"a", "/">> \o name,
                           tag |-> tag, err |-> NoError]
              /\ args.ref = <<"docker.io", "/">> \o name \o <<":">> \o tag =>
                    ret = [domain |-> <<"index.docker.io">>, path |-> name,
                           tag |-> tag, err |-> NoError]

\* C23: <host>:<port>/<path>:<tag> gives (<host>:<port>, <path>, <tag>) for
\* paths of any number of segments, and <host>:<port>/<path> fails with
\* expected tagged reference.
C23_ColonBeforeSlashIsPort ==
    ParseDone =>
        \A host \in RefHosts, path \in RefPaths :
            /\ args.ref = host \o <<":", "a", "/">> \o path \o <<":", "a">> =>
                  ret = [domain |-> host \o <<":", "a">>, path |-> path,
                         tag |-> <<"a">>, err |-> NoError]
            /\ args.ref = host \o <<":", "a", "/">> \o path =>
                  ret = ParseError(<<"expected tagged reference">>)

\* The reference ends in a colon followed by a tag without ':' or '/'.
EndsInTag(ref) ==
    \E i \in 1..(Len(ref) - 1) :
        /\ ref[i] = ":"
        /\ \A j \in (i + 1)..Len(ref) : ref[j] \notin {":", "/"}

\* C24: a Reference returned by Parse has a tag and a path; the empty string
\* fails with invalid reference format, and every other input that does not
\* end in a colon and a tag fails with expected tagged reference.
C24_ReturnedReferenceIsTagged ==
    ParseDone =>
        /\ ret.err = NoError => (ret.tag # <<>> /\ ret.path # <<>>)
        /\ args.ref = <<>> => ret.err = <<"invalid reference format">>
        /\ (args.ref # <<>> /\ ~EndsInTag(args.ref)) => ret.err = <<"expected tagged reference">>

(***************************************************************************)
(* docker: the bearer-token round-tripper                                  *)
(***************************************************************************)

\* strings.HasSuffix
HasSuffix(str, suffix) ==
    /\ Len(suffix) <= Len(str)
    /\ SubSeq(str, Len(str) - Len(suffix) + 1, Len(str)) = suffix

\* strings.Index(str, substr) for a substr that is one piece of str: counted
\* from 0 in pieces, -1 when substr does not occur.
Index(str, substr) ==
    IF \E i \in 1..Len(str) : str[i] = substr
    THEN (CHOOSE i \in 1..Len(str) : str[i] = substr /\ \A j \in 1..(i - 1) : str[j] # substr) - 1
    ELSE -1

\* A URL path is a sequence of pieces whose first piece holds its first four
\* bytes ("/v2/", "/reg"), or is the whole path when that is shorter ("/").
PathIsShort(path) == path = <<>> \/ Head(path) = "/"

\* newBearerToken(repository) given the token endpoint's answer: a request to
\* the endpoint, then the token or an error.
newBearerToken(repository, answer) ==
    [event |-> [to |-> "auth.docker.io", repository |-> repository, answer |-> answer],
     token |-> IF answer.status = 200 THEN answer.token ELSE <<>>,
     err |-> IF answer.status # 200 THEN <<"received ", "401", " status code">>
             ELSE IF answer.token = <<>> THEN <<"invalid bearer token">>
             ELSE NoError]

\* The request RoundTrip hands to the transport.
Forward(token, req) ==
    [to |-> "transport", host |-> req.host, path |-> req.path,
     authorization |-> IF ~HasSuffix(req.host, <<"r2.cloudflarestorage.com">>)
                       THEN <<"Bearer ", token>>
                       ELSE req.authorization]

\* RoundTrip that asks for a token on every call.
RoundTrip_NoCache(token, req, answer) ==
    IF PathIsShort(req.path)
    THEN [token |-> token, events |-> <<>>, err |-> <<"panic">>]
    ELSE LET afterV2 == Tail(req.path)
             i == IF Index(afterV2, "/manifests") # -1 THEN Index(afterV2, "/manifests")
                  ELSE Index(afterV2, "/blobs")
         IN  IF i = -1
             THEN [token |-> token, events |-> <<>>, err |-> <<"invalid docker.io URI">>]
             ELSE LET t == newBearerToken(Slice(afterV2, 0, i), answer)
                  IN  IF t.err # NoError
                      THEN [token |-> token, events |-> <<t.event>>, err |-> t.err]
                      ELSE [token |-> t.token,
                            events |-> <<t.event, Forward(t.token, req)>>, err |-> NoError]

\* bearerAuth.RoundTrip(req): the token afterwards, the requests sent (to the
\* token endpoint, to the transport) and the error.  A path shorter than four
\* bytes makes req.URL.Path[4:] panic.
RoundTrip(token, req, answer) ==
    IF token = <<>>
    THEN IF PathIsShort(req.path)
         THEN [token |-> token, events |-> <<>>, err |-> <<"panic">>]
         ELSE LET afterV2 == Tail(req.path)
                  i == IF Index(afterV2, "/manifests") # -1 THEN Index(afterV2, "/manifests")
                       ELSE Index(afterV2, "/blobs")
              IN  IF i = -1
                  THEN [token |-> token, events |-> <<>>, err |-> <<"invalid docker.io URI">>]
                  ELSE LET t == newBearerToken(Slice(afterV2, 0, i), answer)
                       IN  IF t.err # NoError
                           THEN [token |-> token, events |-> <<t.event>>, err |-> t.err]
                           ELSE [token |-> t.token,
                                 events |-> <<t.event, Forward(t.token, req)>>, err |-> NoError]
    ELSE [token |-> token, events |-> <<Forward(token, req)>>, err |-> NoError]

\* Bound of the calls made on one round-tripper.
MaxRoundTrips == 3

\* Requests for a manifest, a blob, a path with neither, a path of one byte,
\* and the blob-storage URL of TestRoundTripper; to Docker Hub and to a
\* blob-storage host, the latter with or without an Authorization header.
RoundTripPaths ==
    {<<"/v2/", "a", "/manifests", "/t">>, <<"/v2/", "a", "/blobs", "/d">>,
     <<"/v2/", "a">>, <<"/">>, <<"/reg", "istry-v2/v2", "/blobs", "/d">>}
RoundTripRequests ==
    {[host |-> <<"index.docker.io">>, path |-> path, authorization |-> <<>>] :
        path \in RoundTripPaths \ {<<"/reg", "istry-v2/v2", "/blobs", "/d">>}}
    \cup {[host |-> <<"a.", "r2.cloudflarestorage.com">>,
           path |-> <<"/reg", "istry-v2/v2", "/blobs", "/d">>, authorization |-> auth] :
             auth \in {<<>>, <<"Basic ", "x">>}}
TokenAnswers ==
    {[status |-> 401, token |-> <<>>]}
    \cup {[status |-> 200, token |-> token] : token \in {<<>>, <<"a">>, <<"b">>}}

\* NewRoundTripper(); ret is the round-tripper's token, the requests it has
\* sent so far, the number of calls and the last call's error.
InitRoundTrip ==
    /\ pc = "call"
    /\ args = [fn |-> "RoundTrip"]
    /\ ret = [token |-> <<>>, log |-> <<>>, n |-> 0, err |-> NoError]
    /\ CarIdle

CallRoundTrip ==
    /\ pc = "call"
    /\ args.fn = "RoundTrip"
    /\ ret.n < MaxRoundTrips
    /\ ret.err # <<"panic">>
    /\ \E req \in RoundTripRequests, answer \in TokenAnswers :
          LET o == RoundTrip(ret.token, req, answer)
          IN  ret' = [token |-> o.token, log |-> ret.log \o o.events,
                      n |-> ret.n + 1, err |-> o.err]
    /\ UNCHANGED <<pc, args, carVars>>

NextRoundTrip == CallRoundTrip

SpecRoundTrip == InitRoundTrip /\ [][NextRoundTrip]_vars

(***************************************************************************)
(* Properties of the round-tripper                                         *)
(***************************************************************************)

\* The token endpoint answered request j of the log with a token.
TokenExchanged(j) ==
    /\ ret.log[j].to = "auth.docker.io"
    /\ ret.log[j].answer.status = 200
    /\ ret.log[j].answer.token # <<>>

\* C25: the token endpoint is contacted before any request is forwarded;
\* after a token exchange that succeeded the endpoint is not contacted again
\* and every request forwarded to a host not ending in
\* r2.cloudflarestorage.com carries Authorization: Bearer <that token>.
C25_TokenFetchedOnceAndReused ==
    args.fn = "RoundTrip" =>
        /\ \A i \in 1..Len(ret.log) :
              ret.log[i].to = "transport" => \E j \in 1..(i - 1) : ret.log[j].to = "auth.docker.io"
        /\ \A j \in 1..Len(ret.log) : TokenExchanged(j) =>
              \A k \in (j + 1)..Len(ret.log) :
                  /\ ret.log[k].to = "transport"
                  /\ ~HasSuffix(ret.log[k].host, <<"r2.cloudflarestorage.com">>) =>
                        ret.log[k].authorization = <<"Bearer ", ret.log[j].answer.token>>

\* Witness of C25: a failed exchange, then a successful one whose request is
\* forwarded, then a second request forwarded with the same token.
C25_Witness ==
    /\ args.fn = "RoundTrip"
    /\ Len(ret.log) = 4
    /\ ret.log[1].to = "auth.docker.io"
    /\ ~TokenExchanged(1)
    /\ TokenExchanged(2)
    /\ ret.log[3].to = "transport"
    /\ ret.log[4].to = "transport"
    /\ ret.log[4].host = <<"index.docker.io">>
    /\ ret.log[4].authorization = <<"Bearer ", ret.log[2].answer.token>>

(***************************************************************************)
(* Properties of the paths Extract writes                                  *)
(***************************************************************************)

\* path is the directory dir or lies below it.
Inside(path, dir) ==
    \/ path = dir
    \/ /\ Len(path) > Len(dir) + 1
       /\ SubSeq(path, 1, Len(dir) + 1) = dir \o <<"/">>

\* C27: the path Extract opens for an entry, and the directory it creates for
\* it, lie inside the destination directory, whatever the entry's name and
\* the number of components stripped.
C27_ExtractStaysInsideDirectory ==
    (pc = "done" /\ args.fn = "newDestinationPath" /\ ret.ok) =>
        /\ Inside(ret.path, args.directory)
        /\ ret.path # args.directory => Inside(Dir(ret.path), args.directory)

(***************************************************************************)
(* Properties of repeated runs of List and Extract                         *)
(***************************************************************************)

\* C29: for a fixed image and fixed arguments every run has the same outcome;
\* so the result with which a run ends is the one it would end with in any
\* other order of the range over the unmatched patterns: the same success or
\* the same error naming the same patterns in the same order.
C29_SameOutcomeOnEveryRun ==
    [][((pc = "finish" \/ (pc = "layer" /\ li > Len(filtered))) /\ pc' = "done") =>
          \A unmatched \in Perms(Unmatched(pm)) :
              result' = IF Len(unmatched) > 0
                        THEN StringsJoin(unmatched, <<",", " ">>) \o <<" not found in layer">>
                        ELSE NoError]_vars

====
